---- MODULE Spec2Model ----
(***************************************************************************)
(* Kruskal's minimum-spanning-forest algorithm over a disjoint-set union   *)
(* (kruskalalgorithm.py): the DisjointSetUnion class (find with path       *)
(* compression, union by rank) and the driver kruskal_mst.                 *)
(***************************************************************************)
EXTENDS Integers, Sequences, FiniteSets, TLC

\* ------------------------------------------------------------------------
\* Bounds of the model
\* ------------------------------------------------------------------------
\* Vertices are the integers 1..MaxV; a call's vertex set is 1..n, n <= MaxV.
MaxV == 3
\* Longest edge list handed to kruskal_mst.
MaxEdges == 3
\* Edge weights are drawn from 1..MaxWeight.
MaxWeight == 2

Universe == 1..MaxV
Weights == 1..MaxWeight

\* ------------------------------------------------------------------------
\* State
\* ------------------------------------------------------------------------
VARIABLES
    pc,                   \* position: "call", "loop", "done", "raised", "new", "dsu"
    vertices,             \* the caller's vertex set (argument `vertices`)
    edges,                \* the caller's edge list (argument `edges`)
    sorted_edges,         \* the local `edges` after line 76 (a sorted copy)
    idx,                  \* index in sorted_edges of the next edge of the for loop
    parent,               \* dsu.parent
    rank,                 \* dsu.rank
    mst_result,           \* the forest accumulated so far
    total_weight,         \* the running total
    printed,              \* what this call wrote with print()
    ret,                  \* the value returned by the call (<<>> while none)
    ncall,                \* 1 for the first call, 2 for the repeated call
    first,                \* what the first call returned and printed
    unioned               \* the pairs passed to union so far (DSU exercise)

vars == <<pc, vertices, edges, sorted_edges, idx, parent, rank, mst_result,
          total_weight, printed, ret, ncall, first, unioned>>

\* ------------------------------------------------------------------------
\* GraphEdge
\* ------------------------------------------------------------------------
\* A GraphEdge object; `id` stands for the object's identity (its position in
\* the caller's list), so that two edges with equal fields stay distinct.
GraphEdge(id, weight, start, end) ==
    [id |-> id, weight |-> weight, start |-> start, end |-> end]

\* ------------------------------------------------------------------------
\* DisjointSetUnion
\* ------------------------------------------------------------------------
\* Mutant of __init__: the ranks start at 1.
DisjointSetUnionRankOne(vs) ==
    [parent |-> [v \in vs |-> v], rank |-> [v \in vs |-> 1]]

\* Mutant of __init__: parent and rank are class attributes shared by all
\* instances, so a second instance over the same vertices sees the first's.
DisjointSetUnionShared(vs) ==
    IF vs # {} /\ DOMAIN parent = vs
    THEN [parent |-> parent, rank |-> rank]
    ELSE [parent |-> [v \in vs |-> v], rank |-> [v \in vs |-> 0]]

\* __init__: every vertex is its own parent, with rank 0.
DisjointSetUnion(vs) ==
    [parent |-> [v \in vs |-> v], rank |-> [v \in vs |-> 0]]

\* Mutant of find: `return self.find(self.parent[vertex])` without the
\* assignment, so no path is compressed.
RECURSIVE findNoCompression(_, _)
findNoCompression(p, vertex) ==
    IF vertex \notin DOMAIN p
    THEN [parent |-> p, ret |-> vertex, raised |-> TRUE]
    ELSE IF p[vertex] # vertex
         THEN findNoCompression(p, p[vertex])
         ELSE [parent |-> p, ret |-> p[vertex], raised |-> FALSE]

\* find(vertex) on the parent mapping p: the root returned, the parent mapping
\* after path compression, and whether self.parent[vertex] raised KeyError.
RECURSIVE find(_, _)
find(p, vertex) ==
    IF vertex \notin DOMAIN p
    THEN [parent |-> p, ret |-> vertex, raised |-> TRUE]
    ELSE IF p[vertex] # vertex
         THEN LET r == find(p, p[vertex])
                  q == [r.parent EXCEPT ![vertex] = r.ret]
              IN  [parent |-> q, ret |-> q[vertex], raised |-> r.raised]
         ELSE [parent |-> p, ret |-> p[vertex], raised |-> FALSE]

\* Mutant of union: the body runs under `try: ... except KeyError: pass`, so a
\* call on an unknown vertex returns None.
unionSwallowsKeyError(p, rk, vertex1, vertex2) ==
    LET f1 == find(p, vertex1)
        f2 == find(f1.parent, vertex2)
        root1 == f1.ret
        root2 == f2.ret
    IN  IF f1.raised
        THEN [parent |-> f1.parent, rank |-> rk, raised |-> FALSE]
        ELSE IF f2.raised
        THEN [parent |-> f2.parent, rank |-> rk, raised |-> FALSE]
        ELSE IF root1 # root2
        THEN IF rk[root1] > rk[root2]
             THEN [parent |-> [f2.parent EXCEPT ![root2] = root1],
                   rank |-> rk, raised |-> FALSE]
             ELSE IF rk[root1] < rk[root2]
             THEN [parent |-> [f2.parent EXCEPT ![root1] = root2],
                   rank |-> rk, raised |-> FALSE]
             ELSE [parent |-> [f2.parent EXCEPT ![root2] = root1],
                   rank |-> [rk EXCEPT ![root1] = rk[root1] + 1],
                   raised |-> FALSE]
        ELSE [parent |-> f2.parent, rank |-> rk, raised |-> FALSE]

\* Mutant of union: with equal ranks each root is attached under the other
\* (self.parent[root2] = root1 and self.parent[root1] = root2).
unionBothLinked(p, rk, vertex1, vertex2) ==
    LET f1 == find(p, vertex1)
        f2 == find(f1.parent, vertex2)
        root1 == f1.ret
        root2 == f2.ret
    IN  IF f1.raised
        THEN [parent |-> f1.parent, rank |-> rk, raised |-> TRUE]
        ELSE IF f2.raised
        THEN [parent |-> f2.parent, rank |-> rk, raised |-> TRUE]
        ELSE IF root1 # root2
        THEN IF rk[root1] > rk[root2]
             THEN [parent |-> [f2.parent EXCEPT ![root2] = root1],
                   rank |-> rk, raised |-> FALSE]
             ELSE IF rk[root1] < rk[root2]
             THEN [parent |-> [f2.parent EXCEPT ![root1] = root2],
                   rank |-> rk, raised |-> FALSE]
             ELSE [parent |-> [f2.parent EXCEPT ![root2] = root1,
                                                ![root1] = root2],
                   rank |-> [rk EXCEPT ![root1] = rk[root1] + 1],
                   raised |-> FALSE]
        ELSE [parent |-> f2.parent, rank |-> rk, raised |-> FALSE]

\* Mutant of union: the higher-rank root is attached under the lower-rank
\* one (the two assignments of the rank comparison are exchanged).
unionHigherUnderLower(p, rk, vertex1, vertex2) ==
    LET f1 == find(p, vertex1)
        f2 == find(f1.parent, vertex2)
        root1 == f1.ret
        root2 == f2.ret
    IN  IF f1.raised
        THEN [parent |-> f1.parent, rank |-> rk, raised |-> TRUE]
        ELSE IF f2.raised
        THEN [parent |-> f2.parent, rank |-> rk, raised |-> TRUE]
        ELSE IF root1 # root2
        THEN IF rk[root1] > rk[root2]
             THEN [parent |-> [f2.parent EXCEPT ![root1] = root2],
                   rank |-> rk, raised |-> FALSE]
             ELSE IF rk[root1] < rk[root2]
             THEN [parent |-> [f2.parent EXCEPT ![root2] = root1],
                   rank |-> rk, raised |-> FALSE]
             ELSE [parent |-> [f2.parent EXCEPT ![root2] = root1],
                   rank |-> [rk EXCEPT ![root1] = rk[root1] + 1],
                   raised |-> FALSE]
        ELSE [parent |-> f2.parent, rank |-> rk, raised |-> FALSE]

\* Mutant of union: with equal ranks root2 is attached under root1 but the
\* rank of root1 is not incremented.
unionRankNotIncremented(p, rk, vertex1, vertex2) ==
    LET f1 == find(p, vertex1)
        f2 == find(f1.parent, vertex2)
        root1 == f1.ret
        root2 == f2.ret
    IN  IF f1.raised
        THEN [parent |-> f1.parent, rank |-> rk, raised |-> TRUE]
        ELSE IF f2.raised
        THEN [parent |-> f2.parent, rank |-> rk, raised |-> TRUE]
        ELSE IF root1 # root2
        THEN IF rk[root1] > rk[root2]
             THEN [parent |-> [f2.parent EXCEPT ![root2] = root1],
                   rank |-> rk, raised |-> FALSE]
             ELSE IF rk[root1] < rk[root2]
             THEN [parent |-> [f2.parent EXCEPT ![root1] = root2],
                   rank |-> rk, raised |-> FALSE]
             ELSE [parent |-> [f2.parent EXCEPT ![root2] = root1],
                   rank |-> rk, raised |-> FALSE]
        ELSE [parent |-> f2.parent, rank |-> rk, raised |-> FALSE]

\* Mutant of union: in the branch rank[root1] < rank[root2] the assignment is
\* self.parent[root1] = root1, which links nothing.
unionLowerNotLinked(p, rk, vertex1, vertex2) ==
    LET f1 == find(p, vertex1)
        f2 == find(f1.parent, vertex2)
        root1 == f1.ret
        root2 == f2.ret
    IN  IF f1.raised
        THEN [parent |-> f1.parent, rank |-> rk, raised |-> TRUE]
        ELSE IF f2.raised
        THEN [parent |-> f2.parent, rank |-> rk, raised |-> TRUE]
        ELSE IF root1 # root2
        THEN IF rk[root1] > rk[root2]
             THEN [parent |-> [f2.parent EXCEPT ![root2] = root1],
                   rank |-> rk, raised |-> FALSE]
             ELSE IF rk[root1] < rk[root2]
             THEN [parent |-> [f2.parent EXCEPT ![root1] = root1],
                   rank |-> rk, raised |-> FALSE]
             ELSE [parent |-> [f2.parent EXCEPT ![root2] = root1],
                   rank |-> [rk EXCEPT ![root1] = rk[root1] + 1],
                   raised |-> FALSE]
        ELSE [parent |-> f2.parent, rank |-> rk, raised |-> FALSE]

\* Mutant of union: with equal ranks the rank is incremented but root2 is not
\* attached under root1.
unionEqualNotLinked(p, rk, vertex1, vertex2) ==
    LET f1 == find(p, vertex1)
        f2 == find(f1.parent, vertex2)
        root1 == f1.ret
        root2 == f2.ret
    IN  IF f1.raised
        THEN [parent |-> f1.parent, rank |-> rk, raised |-> TRUE]
        ELSE IF f2.raised
        THEN [parent |-> f2.parent, rank |-> rk, raised |-> TRUE]
        ELSE IF root1 # root2
        THEN IF rk[root1] > rk[root2]
             THEN [parent |-> [f2.parent EXCEPT ![root2] = root1],
                   rank |-> rk, raised |-> FALSE]
             ELSE IF rk[root1] < rk[root2]
             THEN [parent |-> [f2.parent EXCEPT ![root1] = root2],
                   rank |-> rk, raised |-> FALSE]
             ELSE [parent |-> f2.parent,
                   rank |-> [rk EXCEPT ![root1] = rk[root1] + 1],
                   raised |-> FALSE]
        ELSE [parent |-> f2.parent, rank |-> rk, raised |-> FALSE]

\* union(vertex1, vertex2) on (p, rk): two finds, then union by rank.
union(p, rk, vertex1, vertex2) ==
    LET f1 == find(p, vertex1)
        f2 == find(f1.parent, vertex2)
        root1 == f1.ret
        root2 == f2.ret
    IN  IF f1.raised
        THEN [parent |-> f1.parent, rank |-> rk, raised |-> TRUE]
        ELSE IF f2.raised
        THEN [parent |-> f2.parent, rank |-> rk, raised |-> TRUE]
        ELSE IF root1 # root2
        THEN IF rk[root1] > rk[root2]
             THEN [parent |-> [f2.parent EXCEPT ![root2] = root1],
                   rank |-> rk, raised |-> FALSE]
             ELSE IF rk[root1] < rk[root2]
             THEN [parent |-> [f2.parent EXCEPT ![root1] = root2],
                   rank |-> rk, raised |-> FALSE]
             ELSE [parent |-> [f2.parent EXCEPT ![root2] = root1],
                   rank |-> [rk EXCEPT ![root1] = rk[root1] + 1],
                   raised |-> FALSE]
        ELSE [parent |-> f2.parent, rank |-> rk, raised |-> FALSE]

\* ------------------------------------------------------------------------
\* kruskal_mst
\* ------------------------------------------------------------------------
\* Mutant of the insertion: e goes before the elements of equal key, so ties
\* come out in reverse input order (an unstable sort).
RECURSIVE InsertBeforeTies(_, _)
InsertBeforeTies(s, e) ==
    IF s = <<>> THEN <<e>>
    ELSE IF s[Len(s)].weight < e.weight
         THEN Append(s, e)
         ELSE Append(InsertBeforeTies(SubSeq(s, 1, Len(s) - 1), e), s[Len(s)])

\* list.insert of e after every element whose key is <= e's key.
RECURSIVE InsertByWeight(_, _)
InsertByWeight(s, e) ==
    IF s = <<>> THEN <<e>>
    ELSE IF s[Len(s)].weight <= e.weight
         THEN Append(s, e)
         ELSE Append(InsertByWeight(SubSeq(s, 1, Len(s) - 1), e), s[Len(s)])

\* Mutant of the sort: the last edge of the list is left out
\* (sorted(edges[:-1], ...)).
RECURSIVE SortedPrefix(_, _)
SortedPrefix(s, n) ==
    IF n <= 0 THEN <<>> ELSE InsertByWeight(SortedPrefix(s, n - 1), s[n])

SortedAllButLast(s) == SortedPrefix(s, Len(s) - 1)

\* Mutant of the sort: the list is taken as it comes (the sort is left out).
NotSorted(s) == s

\* Mutant of the sort: descending by weight (reverse=True).
RECURSIVE SortedDescending(_)
SortedDescending(s) ==
    IF s = <<>> THEN <<>>
    ELSE LET rest == SortedDescending(SubSeq(s, 1, Len(s) - 1))
             e == s[Len(s)]
             lead == SelectSeq(rest, LAMBDA x : x.weight >= e.weight)
             trail == SelectSeq(rest, LAMBDA x : x.weight < e.weight)
         IN  lead \o <<e>> \o trail

\* sorted(edges, key=lambda edge: edge.weight): a new list, ascending by
\* weight, stable (equal keys keep their input order).
RECURSIVE SortedByWeight(_)
SortedByWeight(s) ==
    IF s = <<>> THEN <<>>
    ELSE InsertByWeight(SortedByWeight(SubSeq(s, 1, Len(s) - 1)), s[Len(s)])

\* Mutant of the component count: set(dsu.parent[vertex] for vertex in
\* vertices), the parents instead of the roots.
ParentsOfAll(p, vs) == [parent |-> p, roots |-> {p[v] : v \in vs}]

\* set(dsu.find(vertex) for vertex in vertices): the finds run one after the
\* other, each compressing its path; the roots found and the final parent.
RECURSIVE FindAll(_, _)
FindAll(p, vs) ==
    IF vs = {} THEN [parent |-> p, roots |-> {}]
    ELSE LET v == CHOOSE x \in vs : TRUE
             f == find(p, v)
             rest == FindAll(f.parent, vs \ {v})
         IN  [parent |-> rest.parent, roots |-> {f.ret} \cup rest.roots]

ErrorMsg == <<"Error: The graph must have at least one vertex and one edge.", 0>>
WarningMsg == <<"Warning: The graph is disconnected.", 0>>
CountMsg(k) == <<"Number of connected components:", k>>

\* Mutant of the guard: `not vertices` alone.
NoVertices(vs, es) == vs = {}

\* Line 71: `not vertices or not edges`.
InsufficientInput(vs, es) == vs = {} \/ es = <<>>

\* Mutant of the accumulation: total_weight += 1.
AddOne(total, edge) == total + 1

\* Line 87: total_weight += edge.weight.
AddWeight(total, edge) == total + edge.weight

\* Lines 71-80: the emptiness guard, else the sort and the fresh locals.
Call ==
    /\ pc = "call"
    /\ IF InsufficientInput(vertices, edges)
       THEN /\ printed' = Append(printed, ErrorMsg)
            /\ ret' = << <<>>, 0 >>
            /\ pc' = "done"
            /\ UNCHANGED <<sorted_edges, idx, parent, rank, mst_result,
                           total_weight>>
       ELSE /\ sorted_edges' = SortedByWeight(edges)
            /\ parent' = DisjointSetUnion(vertices).parent
            /\ rank' = DisjointSetUnion(vertices).rank
            /\ mst_result' = <<>>
            /\ total_weight' = 0
            /\ idx' = 1
            /\ pc' = "loop"
            /\ UNCHANGED <<printed, ret>>
    /\ UNCHANGED <<vertices, edges, ncall, first, unioned>>

\* Mutant of the loop body: dsu.union(edge.start, edge.end) is called before
\* the test instead of inside the if.
IterateUnionFirst ==
    /\ pc = "loop"
    /\ idx <= Len(sorted_edges)
    /\ LET edge == sorted_edges[idx]
           u == union(parent, rank, edge.start, edge.end)
           f1 == find(u.parent, edge.start)
           f2 == find(f1.parent, edge.end)
       IN  IF u.raised \/ f1.raised \/ f2.raised
           THEN /\ pc' = "raised"
                /\ parent' = u.parent
                /\ UNCHANGED <<idx, rank, mst_result, total_weight>>
           ELSE IF f1.ret # f2.ret
           THEN /\ parent' = f2.parent
                /\ rank' = u.rank
                /\ mst_result' = Append(mst_result, edge)
                /\ total_weight' = AddWeight(total_weight, edge)
                /\ idx' = idx + 1
                /\ pc' = "loop"
           ELSE /\ parent' = f2.parent
                /\ rank' = u.rank
                /\ idx' = idx + 1
                /\ pc' = "loop"
                /\ UNCHANGED <<mst_result, total_weight>>
    /\ UNCHANGED <<vertices, edges, sorted_edges, printed, ret, ncall, first,
                   unioned>>

\* Lines 82-87: one iteration of the for loop.
Iterate ==
    /\ pc = "loop"
    /\ idx <= Len(sorted_edges)
    /\ LET edge == sorted_edges[idx]
           f1 == find(parent, edge.start)
           f2 == find(f1.parent, edge.end)
           u == union(f2.parent, rank, edge.start, edge.end)
       IN  IF f1.raised \/ f2.raised
           THEN /\ pc' = "raised"
                /\ parent' = IF f1.raised THEN f1.parent ELSE f2.parent
                /\ UNCHANGED <<idx, rank, mst_result, total_weight>>
           ELSE IF f1.ret # f2.ret
           THEN /\ parent' = u.parent
                /\ rank' = u.rank
                /\ mst_result' = Append(mst_result, edge)
                /\ total_weight' = AddWeight(total_weight, edge)
                /\ idx' = idx + 1
                /\ pc' = "loop"
           ELSE /\ parent' = f2.parent
                /\ idx' = idx + 1
                /\ pc' = "loop"
                /\ UNCHANGED <<rank, mst_result, total_weight>>
    /\ UNCHANGED <<vertices, edges, sorted_edges, printed, ret, ncall, first,
                   unioned>>

\* Lines 89-95: count the components, warn when there are several, return.
Return ==
    /\ pc = "loop"
    /\ idx > Len(sorted_edges)
    /\ LET fa == FindAll(parent, vertices)
           connected_components == fa.roots
       IN  /\ parent' = fa.parent
           /\ printed' = IF Cardinality(connected_components) > 1
                         THEN printed \o <<WarningMsg,
                                  CountMsg(Cardinality(connected_components))>>
                         ELSE printed
    /\ ret' = <<mst_result, total_weight>>
    /\ pc' = "done"
    /\ UNCHANGED <<vertices, edges, sorted_edges, idx, rank, mst_result,
                   total_weight, ncall, first, unioned>>

\* The caller invokes kruskal_mst a second time with the same objects.
CallAgain ==
    /\ pc = "done"
    /\ ncall = 1
    /\ first' = [ret |-> ret, printed |-> printed]
    /\ ncall' = 2
    /\ printed' = <<>>
    /\ ret' = <<>>
    /\ pc' = "call"
    /\ UNCHANGED <<vertices, edges, sorted_edges, idx, parent, rank,
                   mst_result, total_weight, unioned>>

\* The list of the GraphEdge objects built from the k triples
\* (weight, start, end) of f, in order.
EdgeList(f, k) == [i \in 1..k |-> GraphEdge(i, f[i][1], f[i][2], f[i][3])]

NoResult == [ret |-> <<>>, printed |-> <<>>]

InitCall(vs, es) ==
    /\ pc = "call"
    /\ vertices = vs
    /\ edges = es
    /\ sorted_edges = <<>>
    /\ idx = 0
    /\ parent = <<>>
    /\ rank = <<>>
    /\ mst_result = <<>>
    /\ total_weight = 0
    /\ printed = <<>>
    /\ ret = <<>>
    /\ ncall = 1
    /\ first = NoResult
    /\ unioned = {}

\* A call with vertices 1..n and at most MaxEdges edges whose endpoints are
\* any vertices of the universe (so possibly outside 1..n).
Init ==
    \E n \in 0..MaxV, k \in 0..MaxEdges :
        \E f \in [1..k -> Weights \X Universe \X Universe] :
            InitCall(1..n, EdgeList(f, k))

Next == Call \/ Iterate \/ Return \/ CallAgain

Spec == Init /\ [][Next]_vars

\* ------------------------------------------------------------------------
\* The DisjointSetUnion class used on its own: any sequence of find and union
\* calls on an instance built over 1..n.
\* ------------------------------------------------------------------------
\* dsu.find(v): the root is returned, or KeyError is raised.
DsuFind(v) ==
    /\ pc = "dsu"
    /\ LET f == find(parent, v)
       IN  /\ parent' = f.parent
           /\ ret' = IF f.raised THEN <<"KeyError", v>> ELSE <<"root", f.ret>>
    /\ UNCHANGED <<pc, vertices, edges, sorted_edges, idx, rank, mst_result,
                   total_weight, printed, ncall, first, unioned>>

\* dsu.union(v1, v2): returns None, or KeyError is raised.
DsuUnion(v1, v2) ==
    /\ pc = "dsu"
    /\ LET u == union(parent, rank, v1, v2)
       IN  /\ parent' = u.parent
           /\ rank' = u.rank
           /\ ret' = IF u.raised THEN <<"KeyError", 0>> ELSE <<"None", 0>>
           /\ unioned' = IF u.raised THEN unioned ELSE unioned \cup {{v1, v2}}
    /\ UNCHANGED <<pc, vertices, edges, sorted_edges, idx, mst_result,
                   total_weight, printed, ncall, first>>

\* dsu = DisjointSetUnion(vertices): the constructor never raises.
DsuNew ==
    /\ pc = "new"
    /\ parent' = DisjointSetUnion(vertices).parent
    /\ rank' = DisjointSetUnion(vertices).rank
    /\ pc' = "dsu"
    /\ UNCHANGED <<vertices, edges, sorted_edges, idx, mst_result,
                   total_weight, printed, ret, ncall, first, unioned>>

\* A caller about to build a DSU over 1..n.
InitDSU ==
    \E n \in 0..MaxV :
        /\ pc = "new"
        /\ vertices = 1..n
        /\ edges = <<>>
        /\ sorted_edges = <<>>
        /\ idx = 0
        /\ parent = <<>>
        /\ rank = <<>>
        /\ mst_result = <<>>
        /\ total_weight = 0
        /\ printed = <<>>
        /\ ret = <<>>
        /\ ncall = 1
        /\ first = NoResult
        /\ unioned = {}

NextDSU ==
    \/ DsuNew
    \/ \E v \in Universe : DsuFind(v)
    \/ \E v1 \in Universe, v2 \in Universe : DsuUnion(v1, v2)

SpecDSU == InitDSU /\ [][NextDSU]_vars

\* A call with vertices 1..n, n <= MaxV + 1, and at most MaxEdges edges, every
\* endpoint a vertex of the call.
InitWide ==
    \E n \in 0..(MaxV + 1), k \in 0..MaxEdges :
        \E f \in [1..k -> Weights \X (1..n) \X (1..n)] :
            InitCall(1..n, EdgeList(f, k))

SpecWide == InitWide /\ [][Next]_vars

\* ------------------------------------------------------------------------
\* Reference definitions for the properties (graph theory, independent of
\* the DSU)
\* ------------------------------------------------------------------------
\* The vertices reachable from the set S over the undirected pairs ps.
RECURSIVE Reach(_, _)
Reach(S, ps) ==
    LET T == S \cup UNION {p \in ps : p \cap S # {}}
    IN  IF T = S THEN S ELSE Reach(T, ps)

\* The endpoints pairs of a set of edges.
Pairs(es) == {{e.start, e.end} : e \in es}

\* The elements of a sequence.
Range(s) == {s[i] : i \in DOMAIN s}

\* Sum of the weights of a set of edges (distinct objects).
RECURSIVE WeightOf(_)
WeightOf(es) ==
    IF es = {} THEN 0
    ELSE LET e == CHOOSE x \in es : TRUE IN e.weight + WeightOf(es \ {e})

\* Sum of the weights of a sequence of edges.
RECURSIVE SumWeights(_)
SumWeights(s) ==
    IF s = <<>> THEN 0 ELSE s[1].weight + SumWeights(Tail(s))

\* The connected components of the graph (vs, es).
Components(vs, es) == {Reach({v}, Pairs(es)) : v \in vs}

\* Every edge endpoint is a vertex.
WellFormed == \A i \in DOMAIN edges : edges[i].start \in vertices /\ edges[i].end \in vertices

\* The edges of es with both endpoints in the vertex set c.
Within(c, es) == {e \in es : e.start \in c /\ e.end \in c}

\* t is a spanning tree of the vertex set c (c non-empty).
IsSpanningTree(t, c) ==
    /\ Cardinality(t) = Cardinality(c) - 1
    /\ \A v \in c : Reach({v}, Pairs(t)) = c

\* The least weight of a spanning tree of c built from the edges es, by
\* enumeration of all subsets.
MinTreeWeight(c, es) ==
    LET trees == {t \in SUBSET Within(c, es) : IsSpanningTree(t, c)}
        ws == {WeightOf(t) : t \in trees}
    IN  CHOOSE w \in ws : \A x \in ws : w <= x

\* The call went through the loop and returned.
Returned == pc = "done" /\ vertices # {} /\ edges # <<>>

\* ------------------------------------------------------------------------
\* Properties
\* ------------------------------------------------------------------------
\* C1: when every edge endpoint is a vertex and the graph is connected, the
\* returned forest has |vertices| - 1 edges and the returned total weight is
\* the least weight of any spanning tree of the graph (found by enumeration).
C1_ConnectedGivesMST ==
    (pc = "done" /\ WellFormed
        /\ Cardinality(Components(vertices, Range(edges))) = 1)
    => /\ Len(ret[1]) = Cardinality(vertices) - 1
       /\ ret[2] = MinTreeWeight(vertices, Range(edges))
       /\ SumWeights(ret[1]) = MinTreeWeight(vertices, Range(edges))

\* A triangle whose heaviest edge comes first in the input and is rejected.
C1_Witness ==
    /\ pc = "done" /\ WellFormed
    /\ Cardinality(vertices) = 3 /\ Len(edges) = 3
    /\ Cardinality(Pairs(Range(edges))) = 3
    /\ \A i \in 1..3 : edges[i].start # edges[i].end
    /\ edges[1].weight = 2 /\ edges[2].weight = 1 /\ edges[3].weight = 1
    /\ Len(ret[1]) = 2 /\ ret[2] = 2

\* C2: with a non-empty edge list and c > 1 components, the returned forest
\* has |vertices| - c edges and, inside every component, is a spanning tree
\* of that component of least weight.
C2_DisconnectedGivesMSF ==
    (pc = "done" /\ WellFormed /\ edges # <<>>
        /\ Cardinality(Components(vertices, Range(edges))) > 1)
    => /\ Len(ret[1]) = Cardinality(vertices)
                          - Cardinality(Components(vertices, Range(edges)))
       /\ \A c \in Components(vertices, Range(edges)) :
            /\ IsSpanningTree(Within(c, Range(ret[1])), c)
            /\ WeightOf(Within(c, Range(ret[1]))) = MinTreeWeight(c, Range(edges))

\* Four vertices: a triangle (one edge rejected) and an isolated vertex.
C2_Witness ==
    /\ pc = "done" /\ WellFormed
    /\ Cardinality(vertices) = 4 /\ Len(edges) = 3
    /\ Cardinality(Components(vertices, Range(edges))) = 2
    /\ \E c \in Components(vertices, Range(edges)) : Cardinality(c) = 3
    /\ edges[1].weight = 2 /\ edges[2].weight = 1
    /\ Len(ret[1]) = 2 /\ ret[2] = 2

\* Replaying a forest on a DSU: every union merges two distinct roots.
RECURSIVE ReplayMerges(_, _, _)
ReplayMerges(p, rk, s) ==
    IF s = <<>> THEN TRUE
    ELSE LET f1 == find(p, s[1].start)
             f2 == find(f1.parent, s[1].end)
             u == union(p, rk, s[1].start, s[1].end)
         IN  /\ ~f1.raised /\ ~f2.raised
             /\ f1.ret # f2.ret
             /\ ReplayMerges(u.parent, u.rank, Tail(s))

\* C3: the returned forest has no cycle: replayed in order on a fresh DSU
\* over the same vertices every union merges two distinct roots (so no
\* self-loop is in it), and each of its edges lowers the number of components
\* of the forest by one.
C3_ForestAcyclic ==
    pc = "done"
    => /\ ReplayMerges(DisjointSetUnion(vertices).parent,
                       DisjointSetUnion(vertices).rank, ret[1])
       /\ \A i \in DOMAIN ret[1] : ret[1][i].start # ret[1][i].end
       /\ Cardinality(Components(vertices, Range(ret[1])))
            = Cardinality(vertices) - Len(ret[1])

\* A self-loop and a cycle-closing edge were both offered and left out.
C3_Witness ==
    /\ pc = "done" /\ Len(edges) = 3 /\ Len(ret[1]) = 1
    /\ edges[1].start = edges[1].end
    /\ edges[2].start # edges[2].end
    /\ Pairs({edges[3]}) = Pairs({edges[2]})

\* C4: after any sequence of find and union calls, two vertices have the
\* same find result exactly when the pairs passed to union connect them.
C4_FindIsConnectivity ==
    pc = "dsu"
    => \A u \in vertices, v \in vertices :
          (find(parent, u).ret = find(parent, v).ret)
          <=> (v \in Reach({u}, unioned))

\* Two vertices never unioned directly are connected through a third, after
\* a find has compressed a path.
C4_Witness ==
    /\ pc = "dsu"
    /\ \E u \in vertices, v \in vertices :
          /\ u # v /\ {u, v} \notin unioned
          /\ find(parent, u).ret = find(parent, v).ret
    /\ \E w \in vertices : rank[w] = 1
    /\ ret # <<>> /\ ret[1] = "root"

\* C5 as stated: the status (Spanning, or Partial(k) for k distinct roots) is
\* the third component of the value returned.
C5_StatusIsReturned ==
    Returned
    => LET k == Cardinality({v \in vertices : parent[v] = v})
       IN  /\ Len(ret) = 3
           /\ ret[3] = IF k = 1 THEN <<"Spanning", 0>> ELSE <<"Partial", k>>

\* C5 (amended): after all edges are processed the call returns the pair
\* (forest, total weight) and nothing else; the number k of distinct roots over
\* all vertices equals the number of connected components of the input graph
\* and is reported by print: nothing when k = 1, the warning and the count k
\* when k > 1. For vertices {1,2,3} and the single edge (1, 1, 2) it returns
\* that edge and weight 1 and prints the count 2.
C5_ComponentsReported ==
    Returned
    => LET k == Cardinality(Components(vertices, Range(edges)))
       IN  /\ ret = <<mst_result, total_weight>>
           /\ Cardinality({v \in vertices : parent[v] = v}) = k
           /\ printed = IF k = 1 THEN <<>> ELSE <<WarningMsg, CountMsg(k)>>
           /\ (vertices = 1..3 /\ edges = <<GraphEdge(1, 1, 1, 2)>>)
                => /\ ret = << <<GraphEdge(1, 1, 1, 2)>>, 1 >>
                   /\ printed = <<WarningMsg, CountMsg(2)>>

\* A connected input whose DSU tree had depth two before the final count: four
\* vertices, three accepted edges, one root.
C5_Witness ==
    /\ Returned /\ Cardinality(vertices) = 4 /\ Len(ret[1]) = 3
    /\ printed = <<>>
    /\ \E r \in vertices : rank[r] = 2

\* The disconnected example of the claim.
C5_WitnessExample ==
    /\ Returned /\ vertices = 1..3 /\ edges = <<GraphEdge(1, 1, 1, 2)>>
    /\ printed = <<WarningMsg, CountMsg(2)>>

\* C6 as stated: with empty vertices or empty edges the value returned is an
\* empty forest, weight 0 and a third component, the insufficient-input
\* status.
C6_InsufficientStatusIsReturned ==
    (pc = "done" /\ (vertices = {} \/ edges = <<>>))
    => /\ Len(ret) = 3
       /\ ret[1] = <<>> /\ ret[2] = 0
       /\ ret[3] = <<"InsufficientInput", 0>>

\* C6 (amended): with empty vertices or empty edges the call returns normally
\* the pair (empty forest, 0) and reports the insufficient input by printing
\* the error message only; no edge is sorted or processed and no DSU is
\* built. With non-empty vertices and empty edges the same happens: no
\* disconnection warning or component count is printed.
C6_InsufficientInputReported ==
    /\ (pc = "done" /\ (vertices = {} \/ edges = <<>>))
       => /\ ret = << <<>>, 0 >>
          /\ printed = <<ErrorMsg>>
          /\ sorted_edges = <<>> /\ idx = 0
          /\ parent = <<>> /\ rank = <<>>
          /\ mst_result = <<>> /\ total_weight = 0
    /\ (vertices = {} \/ edges = <<>>) => pc \in {"call", "done"}

\* Several vertices and no edge: returned with the error message.
C6_Witness ==
    /\ pc = "done" /\ Cardinality(vertices) > 1 /\ edges = <<>>
    /\ printed = <<ErrorMsg>>

\* C7: a second call with the same, unmodified arguments returns and prints
\* what the first call did, and no step of a call changes the arguments.
C7_Idempotent ==
    /\ []((pc = "done" /\ ncall = 2)
            => (ret = first.ret /\ printed = first.printed))
    /\ [][(pc # "dsu") => (vertices' = vertices /\ edges' = edges)]_vars

\* The second call returned a forest after rejecting an edge, on a
\* disconnected graph whose input was not sorted.
C7_Witness ==
    /\ pc = "done" /\ ncall = 2
    /\ Len(edges) = 3 /\ Len(ret[1]) = 2 /\ Len(printed) = 2
    /\ edges[1].weight > edges[2].weight
    /\ ret = first.ret

\* One-edge graph on two distinct vertices.
IsProperPair(e) == e.start # e.end

IsStableSubsequence(s, es) ==
    /\ \A i \in DOMAIN s : s[i] \in Range(es)
    /\ \A i \in DOMAIN s, j \in DOMAIN s :
          i < j => \/ s[i].weight < s[j].weight
                   \/ s[i].weight = s[j].weight /\ s[i].id < s[j].id

\* C9: the forest, while it is built and when it is returned, is a
\* subsequence of the input edges stably sorted by weight.
C9_ForestInSortedOrder ==
    /\ pc \in {"loop", "done"} => IsStableSubsequence(mst_result, edges)
    /\ pc = "done" => IsStableSubsequence(ret[1], edges)

\* All three edges accepted; the input had the heaviest first and a tie.
C9_Witness ==
    /\ pc = "done" /\ Len(edges) = 3
    /\ edges[1].weight = 2 /\ edges[2].weight = 1 /\ edges[3].weight = 1
    /\ ret[1] = <<edges[2], edges[3], edges[1]>>

\* C10: at the head of every loop iteration and on return the total weight
\* is the sum of the weights of the forest, and an iteration either appends
\* an edge and adds its weight or changes neither.
C10_TotalIsSumOfForest ==
    /\ []((pc \in {"loop", "done"} => total_weight = SumWeights(mst_result))
          /\ (pc = "done" => ret[2] = SumWeights(ret[1])))
    /\ [][(pc = "loop" /\ pc' = "loop")
            => \/ /\ mst_result' = mst_result
                  /\ total_weight' = total_weight
               \/ /\ mst_result' = Append(mst_result, sorted_edges[idx])
                  /\ total_weight' = total_weight + sorted_edges[idx].weight]_vars

\* Two edges of different weights accepted and one rejected.
C10_Witness ==
    /\ pc = "done" /\ Len(edges) = 3 /\ Len(ret[1]) = 2 /\ ret[2] = 3

\* ------------------------------------------------------------------------
\* The example of the main block
\* ------------------------------------------------------------------------
\* nodes_kruskal: the vertices a..i, written 1..9.
nodes_kruskal == 1..9

\* edges_kruskal: the fourteen (weight, start, end) triples, in order.
edges_kruskal ==
    << <<4, 1, 2>>, <<8, 1, 8>>, <<8, 2, 3>>, <<11, 2, 8>>, <<7, 3, 4>>,
       <<4, 3, 6>>, <<2, 3, 9>>, <<6, 3, 7>>, <<9, 4, 5>>, <<14, 4, 6>>,
       <<10, 5, 6>>, <<2, 6, 7>>, <<1, 7, 8>>, <<7, 8, 9>> >>

\* s without its element at position d (s itself when d = 0).
Without(s, d) ==
    IF d = 0 THEN s
    ELSE SubSeq(s, 1, d - 1) \o SubSeq(s, d + 1, Len(s))

\* The call of the main block, and the same call with one of the fourteen
\* edges left out of the list.
InitExample ==
    \E d \in 0..Len(edges_kruskal) :
        InitCall(nodes_kruskal,
                 EdgeList(Without(edges_kruskal, d),
                          Len(Without(edges_kruskal, d))))

SpecExample == InitExample /\ [][Next]_vars

\* The input is the example data itself.
IsExample ==
    /\ vertices = nodes_kruskal
    /\ edges = EdgeList(edges_kruskal, Len(edges_kruskal))

\* C11: on the example data (9 vertices, 14 edges) exactly 8 edges are
\* accepted, the total weight returned is 37, and one component is left: one
\* root over all vertices and no disconnection warning.
C11_ExampleResult ==
    (pc = "done" /\ IsExample)
    => /\ Len(ret[1]) = 8
       /\ ret[2] = 37
       /\ SumWeights(ret[1]) = 37
       /\ Cardinality({v \in vertices : parent[v] = v}) = 1
       /\ Cardinality(Components(vertices, Range(ret[1]))) = 1
       /\ printed = <<>>

\* The call on the example data has returned, six edges rejected.
C11_Witness ==
    /\ pc = "done" /\ IsExample
    /\ Len(edges) = 14 /\ Cardinality(vertices) = 9
    /\ idx = 15 /\ Len(ret[1]) = 8

\* ------------------------------------------------------------------------
\* The driver and the bare DSU together: a behaviour is either a run of
\* kruskal_mst or a sequence of calls on a DSU.
\* ------------------------------------------------------------------------
SpecBoth == (Init \/ InitDSU) /\ [][Next \/ NextDSU]_vars

\* ------------------------------------------------------------------------
\* Reference definitions for the DSU properties (parent links followed as
\* they are, without the class's find)
\* ------------------------------------------------------------------------
\* The vertex reached from v after n parent links.
RECURSIVE Walk(_, _, _)
Walk(p, v, n) == IF n = 0 THEN v ELSE Walk(p, p[v], n - 1)

\* The root of v's tree (p a forest whose trees are no deeper than its size).
RootOf(p, v) == Walk(p, v, Cardinality(DOMAIN p))

\* The number of parent links from v to its root.
DepthOf(p, v) ==
    CHOOSE n \in 0..Cardinality(DOMAIN p) :
        /\ p[Walk(p, v, n)] = Walk(p, v, n)
        /\ \A m \in 0..(n - 1) : p[Walk(p, v, m)] # Walk(p, v, m)

\* The vertices on the parent path from v to its root, both included.
PathOf(p, v) == {Walk(p, v, n) : n \in 0..DepthOf(p, v)}

\* The roots of p.
RootsOf(p) == {v \in DOMAIN p : p[v] = v}

\* The partition of the vertices into the trees of p.
PartitionOf(p) ==
    {{u \in DOMAIN p : RootOf(p, u) = RootOf(p, v)} : v \in DOMAIN p}

\* The height of the tree rooted at r.
HeightOf(p, r) ==
    LET ds == {DepthOf(p, v) : v \in {u \in DOMAIN p : RootOf(p, u) = r}}
    IN  CHOOSE h \in ds : \A d \in ds : d <= h

\* C12: find or union on a vertex that is not in the DSU raises KeyError; the
\* vertex is inserted neither in parent nor in rank, and the ranks and the
\* partition of the known vertices stay as they were. Inside kruskal_mst an
\* edge endpoint outside vertices makes the call raise: no forest is
\* returned.
C12_UnknownVertexRaises ==
    /\ [](pc \in {"dsu", "loop", "raised"}
            => (DOMAIN parent = vertices /\ DOMAIN rank = vertices))
    /\ [][\A v \in Universe \ vertices :
            /\ DsuFind(v)
                 => /\ ret' = <<"KeyError", v>>
                    /\ rank' = rank
                    /\ PartitionOf(parent') = PartitionOf(parent)
            /\ \A w \in Universe :
                 (DsuUnion(v, w) \/ DsuUnion(w, v))
                 => /\ ret' = <<"KeyError", 0>>
                    /\ rank' = rank
                    /\ unioned' = unioned
                    /\ PartitionOf(parent') = PartitionOf(parent)]_vars
    /\ []((pc \in {"call", "loop", "done", "raised"}
             /\ vertices # {} /\ edges # <<>> /\ ~WellFormed)
            => (pc # "done" /\ ret = <<>>))
    /\ [](pc = "raised" => (~WellFormed /\ ret = <<>>))

\* A union with an unknown vertex raised after earlier unions had built a
\* tree.
C12_Witness ==
    /\ pc = "dsu" /\ ret = <<"KeyError", 0>>
    /\ Cardinality(vertices) = 2 /\ unioned # {}
    /\ Cardinality(RootsOf(parent)) = 1

\* The call raised on an unknown endpoint after accepting an edge.
C12_WitnessDriver ==
    /\ pc = "raised" /\ Len(mst_result) = 1 /\ ret = <<>>

\* C13 as stated: no DSU is built over an empty vertex set (the construction
\* fails), and over a non-empty set every vertex starts as its own parent
\* with rank 0.
C13_EmptyConstructionFails ==
    (pc = "dsu" /\ ret = <<>> /\ unioned = {})
    => /\ vertices # {}
       /\ parent = [v \in vertices |-> v]
       /\ rank = [v \in vertices |-> 0]

\* C13 (amended): constructing a DSU over an empty vertex set succeeds and
\* gives empty parent and rank mappings; over a non-empty set every vertex
\* is its own parent with rank 0. kruskal_mst builds its DSU only over a
\* non-empty vertex set.
C13_ConstructionGivesSingletons ==
    /\ (pc = "dsu" /\ ret = <<>> /\ unioned = {})
       => /\ parent = [v \in vertices |-> v]
          /\ rank = [v \in vertices |-> 0]
          /\ vertices = {} => (parent = <<>> /\ rank = <<>>)
    /\ (pc = "loop" /\ idx = 1)
       => /\ vertices # {}
          /\ parent = [v \in vertices |-> v]
          /\ rank = [v \in vertices |-> 0]

\* A DSU over the empty set exists, with empty mappings.
C13_Witness ==
    /\ pc = "dsu" /\ ret = <<>> /\ vertices = {}
    /\ parent = <<>> /\ rank = <<>>

\* C14: an iteration accepts its edge exactly when the roots of the two
\* endpoints differ at that moment (the two components are then merged); a
\* rejecting iteration leaves the forest, the total weight, the ranks, the
\* roots and the partition as they were (parent links may only be
\* compressed).
C14_AcceptIffRootsDiffer ==
    [][(pc = "loop" /\ pc' = "loop")
        => LET edge == sorted_edges[idx]
               differ == RootOf(parent, edge.start) # RootOf(parent, edge.end)
           IN  /\ differ <=> (mst_result' = Append(mst_result, edge))
               /\ differ => RootOf(parent', edge.start) = RootOf(parent', edge.end)
               /\ ~differ
                    => /\ mst_result' = mst_result
                       /\ total_weight' = total_weight
                       /\ rank' = rank
                       /\ RootsOf(parent') = RootsOf(parent)
                       /\ PartitionOf(parent') = PartitionOf(parent)
                       /\ \A v \in vertices :
                             parent'[v] \in {parent[v], RootOf(parent, v)}]_vars

\* A first edge was accepted and a second one between the same components
\* rejected.
C14_Witness ==
    /\ pc = "loop" /\ idx = 3 /\ Len(mst_result) = 1
    /\ mst_result[1] = sorted_edges[1]
    /\ IsProperPair(sorted_edges[2])
    /\ Cardinality(RootsOf(parent)) = Cardinality(vertices) - 1

\* ------------------------------------------------------------------------
\* The bare DSU over up to MaxV + 1 vertices (trees of height two need four)
\* ------------------------------------------------------------------------
InitDSUWide ==
    \E n \in 0..(MaxV + 1) :
        /\ pc = "new"
        /\ vertices = 1..n
        /\ edges = <<>>
        /\ sorted_edges = <<>>
        /\ idx = 0
        /\ parent = <<>>
        /\ rank = <<>>
        /\ mst_result = <<>>
        /\ total_weight = 0
        /\ printed = <<>>
        /\ ret = <<>>
        /\ ncall = 1
        /\ first = NoResult
        /\ unioned = {}

NextDSUWide ==
    \/ DsuNew
    \/ \E v \in 1..(MaxV + 1) : DsuFind(v)
    \/ \E v1 \in 1..(MaxV + 1), v2 \in 1..(MaxV + 1) : DsuUnion(v1, v2)

SpecDSUWide == InitDSUWide /\ [][NextDSUWide]_vars

\* C15: in every state of a DSU the parent mapping is a forest over the
\* vertex set: every parent is a vertex of the set, the only cycles are the
\* self-loops of the roots, and the parent links from any vertex reach a root
\* within |vertices| steps (so the recursion of find ends).
C15_ParentIsForest ==
    pc = "dsu"
    => /\ DOMAIN parent = vertices
       /\ \A v \in vertices : parent[v] \in vertices
       /\ \A v \in vertices :
             parent[RootOf(parent, v)] = RootOf(parent, v)
       /\ \A v \in vertices, n \in 1..Cardinality(vertices) :
             Walk(parent, v, n) = v => parent[v] = v

\* All three vertices in one tree, after a find.
C15_Witness ==
    /\ pc = "dsu" /\ Cardinality(vertices) = 3
    /\ Cardinality(RootsOf(parent)) = 1
    /\ ret # <<>> /\ ret[1] = "root"

\* The tree of p that holds the vertex v.
TreeOf(p, v) == {u \in DOMAIN p : RootOf(p, u) = RootOf(p, v)}

\* C16: union(v1, v2) with roots r1 and r2: when r1 = r2 the partition, the
\* roots and all ranks stay; when rank[r1] > rank[r2], r2 is attached under
\* r1, when rank[r1] < rank[r2], r1 under r2, both without any rank change;
\* when the ranks are equal r2 is attached under r1 and rank[r1] grows by
\* exactly 1. No other vertex stops or starts being a root, no other rank
\* changes, and the two trees become one.
C16_UnionByRank ==
    [][\A v1 \in vertices, v2 \in vertices :
        DsuUnion(v1, v2)
        => LET r1 == RootOf(parent, v1)
               r2 == RootOf(parent, v2)
           IN  /\ ret' = <<"None", 0>>
               /\ r1 = r2
                    => /\ PartitionOf(parent') = PartitionOf(parent)
                       /\ RootsOf(parent') = RootsOf(parent)
                       /\ rank' = rank
               /\ (r1 # r2 /\ rank[r1] > rank[r2])
                    => /\ parent'[r2] = r1
                       /\ RootsOf(parent') = RootsOf(parent) \ {r2}
                       /\ rank' = rank
               /\ (r1 # r2 /\ rank[r1] < rank[r2])
                    => /\ parent'[r1] = r2
                       /\ RootsOf(parent') = RootsOf(parent) \ {r1}
                       /\ rank' = rank
               /\ (r1 # r2 /\ rank[r1] = rank[r2])
                    => /\ parent'[r2] = r1
                       /\ RootsOf(parent') = RootsOf(parent) \ {r2}
                       /\ rank' = [rank EXCEPT ![r1] = rank[r1] + 1]
               /\ r1 # r2
                    => PartitionOf(parent')
                         = (PartitionOf(parent)
                              \ {TreeOf(parent, v1), TreeOf(parent, v2)})
                           \cup {TreeOf(parent, v1) \cup TreeOf(parent, v2)}]_vars

\* Two unions have put three vertices in one tree: the first with equal
\* ranks, the second with different ranks.
C16_Witness ==
    /\ pc = "dsu" /\ Cardinality(vertices) = 3
    /\ Cardinality(RootsOf(parent)) = 1
    /\ Cardinality(unioned) = 2
    /\ ret = <<"None", 0>>
    /\ \E r \in vertices : rank[r] = 1 /\ \A v \in vertices \ {r} : rank[v] = 0

\* C17: find(v) returns the root of v's tree and leaves every vertex of the
\* parent path from v to the root with the root as its parent; the parent of
\* every other vertex, the set of roots, the ranks and the partition are
\* what they were before the call.
C17_FindCompressesPath ==
    [][\A v \in vertices :
        DsuFind(v)
        => LET r == RootOf(parent, v)
           IN  /\ ret' = <<"root", r>>
               /\ \A u \in PathOf(parent, v) : parent'[u] = r
               /\ \A u \in vertices \ PathOf(parent, v) : parent'[u] = parent[u]
               /\ RootsOf(parent') = RootsOf(parent)
               /\ rank' = rank
               /\ PartitionOf(parent') = PartitionOf(parent)]_vars

\* After a find, a tree of four vertices whose root has rank 2 has height 1:
\* a path of two links has been compressed.
C17_Witness ==
    /\ pc = "dsu" /\ Cardinality(vertices) = 4
    /\ ret # <<>> /\ ret[1] = "root"
    /\ rank[ret[2]] = 2
    /\ HeightOf(parent, ret[2]) = 1

\* C18: no call lowers the rank of any vertex, and the rank of every root is
\* at least the height of its tree.
C18_RankBoundsHeight ==
    /\ [](pc = "dsu"
            => \A r \in RootsOf(parent) : HeightOf(parent, r) <= rank[r])
    /\ [][pc = "dsu" => \A v \in vertices : rank'[v] >= rank[v]]_vars

\* A root of rank 2 over a tree of height 2, and (after compression) a root
\* of rank 2 over a tree of height 1: the bound is reached and is not always
\* tight.
C18_Witness ==
    /\ pc = "dsu" /\ Cardinality(vertices) = 4
    /\ \E r \in RootsOf(parent) : rank[r] = 2 /\ HeightOf(parent, r) = 2

C18_WitnessSlack ==
    /\ pc = "dsu" /\ Cardinality(vertices) = 4
    /\ \E r \in RootsOf(parent) : rank[r] = 2 /\ HeightOf(parent, r) = 1

\* ------------------------------------------------------------------------
\* Progress: the call is sequential code, so a step that can be taken is
\* taken.
\* ------------------------------------------------------------------------
InitNarrow ==
    \E n \in 0..MaxV, k \in 0..MaxEdges :
        /\ n < MaxV \/ k < MaxEdges
        /\ \E f \in [1..k -> Weights \X (1..n) \X (1..n)] :
               InitCall(1..n, EdgeList(f, k))

\* The call runs to completion once started: nothing suspends the
\* interpreter between two statements of kruskal_mst.
SpecFair == InitNarrow /\ [][Next]_vars /\ WF_vars(Next)

\* C19: on every input whose endpoints are vertices the call terminates;
\* it decides each edge of the input exactly once, one edge per iteration in
\* the order of the sorted list, and then finds every vertex (each vertex
\* ends with its root as parent).
C19_TerminatesAfterEDecisions ==
    /\ (pc = "call") ~> (pc = "done")
    /\ [][(pc = "loop" /\ pc' = "loop")
            => (idx' = idx + 1 /\ sorted_edges' = sorted_edges)]_vars
    /\ [](pc = "loop"
            => /\ Len(sorted_edges) = Len(edges)
               /\ Range(sorted_edges) = Range(edges)
               /\ \A i \in DOMAIN sorted_edges, j \in DOMAIN sorted_edges :
                     i < j => sorted_edges[i].weight <= sorted_edges[j].weight)
    /\ [](Returned
            => /\ idx = Len(edges) + 1
               /\ \A v \in vertices : parent[v] \in RootsOf(parent))

\* The second call has returned after three decisions, one of them an
\* acceptance, on two vertices.
C19_Witness ==
    /\ pc = "done" /\ ncall = 2
    /\ Len(edges) = 3 /\ idx = 4 /\ Cardinality(vertices) = 2
    /\ Len(ret[1]) = 1

\* C20: at the head of every loop iteration the number of roots is the
\* number of vertices minus the number of accepted edges; so on return the
\* component count is |vertices| - len(forest), and the forest never has
\* more than |vertices| - 1 edges.
C20_RootsPlusForestIsVertices ==
    /\ (pc = "loop" \/ Returned)
         => /\ Cardinality(RootsOf(parent))
                 = Cardinality(vertices) - Len(mst_result)
            /\ Len(mst_result) <= Cardinality(vertices) - 1
    /\ Returned
         => /\ Len(ret[1]) = Cardinality(vertices) - Cardinality(RootsOf(parent))
            /\ Cardinality(vertices) - Len(ret[1]) > 1
                 => printed = <<WarningMsg,
                                CountMsg(Cardinality(vertices) - Len(ret[1]))>>

\* In the loop, two edges accepted on four vertices: two roots left.
C20_Witness ==
    /\ pc = "loop" /\ Cardinality(vertices) = 4
    /\ Len(mst_result) = 2 /\ idx = 3
    /\ Cardinality(RootsOf(parent)) = 2

====
